---- MODULE Spec2Model ----
(***************************************************************************)
(* A model of dwn's plan loading (src/dwn/plan.py): Plan.from_dict with    *)
(* its volume validation, port normalisation and host-port check, and the  *)
(* Loader that reads the distribution and the user plan directories.       *)
(* It goes on with the object names (NameSpec), the persisted              *)
(* configuration (CfgSpec, src/dwn/config.py) and class Container under    *)
(* the run and stop commands (RunSpec, src/dwn/cli/commands/base.py).      *)
(*                                                                         *)
(* YAML values are modelled as tagged records:                             *)
(*   [int |-> n]   an integer           [str |-> s]   a string             *)
(*   [map |-> s]   a mapping, s the sequence of its <<key, value>> entries *)
(*                 in document order (Python dicts keep insertion order)   *)
(*   [list |-> s]  a list               [null |-> TRUE]  None              *)
(* A raw plan document is a function from its top-level keys to values.    *)
(* An exception leaving a method is the value Raised(kind).                *)
(***************************************************************************)
EXTENDS Integers, Sequences, FiniteSets, TLC

VARIABLES
    dist_files,   \* the parsed *.yml documents of DIST_PLAN_DIRECTORY, in glob order
    user_files,   \* the parsed *.yml documents of USER_PLAN_DIRECTORY, in glob order
    plans,        \* Loader.plans
    pc,           \* where Loader.__init__ is: load_dist_plans, load_user_plans, done, raised
    i,            \* index of the file the running loop is at
    ret,          \* the last Loader.get_plan call and what it returned
    \* -- container naming (Container.get_net_container_name_with_ports, Container.ports)
    n_args,       \* the object prefix, plan name and port pair a name is built from
    n_name,       \* the proxy container name built from n_args
    n_ports,      \* what the loop body of Container.ports makes of n_name
    npc,          \* args, named, parsed
    \* -- configuration (src/dwn/config.py)
    config_file,  \* the mapping persisted in CONFIG_PATH (empty: the touched file)
    config,       \* Config.config of the running process
    cpc,          \* no_process, running
    procs,        \* how many processes have started so far
    generated,    \* how many times an object_prefix was generated so far
    issued,       \* every Config.object_name call so far: process, argument, result
    \* -- the run and stop commands (class Container, src/dwn/cli/commands/base.py)
    r_plan,       \* the plan loader.get_plan returned
    cmd,          \* run, stop, or the Container method called: stop_net, ports
    r_args,       \* the arguments of the command
    rpc,          \* the statement the command is at
    images,       \* the image references the runtime holds
    network,      \* whether the runtime holds the docker network config.net_name()
    running,      \* the running containers, in containers.list() order
    calls,        \* the runtime calls issued so far, with their results
    idx,          \* index of the running for loop
    listed,       \* what self.containers() returned last
    depth,        \* nested frames of _ensure_net_exists
    caller,       \* the method the running _ensure_net_exists returns to
    \* -- two run commands for one plan at the same time
    q_plan,       \* the plan both commands run
    q_pc,         \* the statement each command is at
    q_seen,       \* what containers() returned to each command
    q_running,    \* the running containers, shared by the two
    q_calls,      \* the containers.run calls issued, with the command issuing them
    \* -- Plan.add_commands
    a_plan,       \* the plan add_commands is called on
    a_extra,      \* its argument c
    a_result,     \* the plan afterwards, or the exception raised
    apc           \* args, done

loaderVars == <<dist_files, user_files, plans, pc, i, ret>>
nameVars == <<n_args, n_name, n_ports, npc>>
cfgVars == <<config_file, config, cpc, procs, generated, issued>>
runVars == <<r_plan, cmd, r_args, rpc, images, network, running, calls, idx, listed, depth, caller>>
raceVars == <<q_plan, q_pc, q_seen, q_running, q_calls>>
addVars == <<a_plan, a_extra, a_result, apc>>
vars == <<loaderVars, nameVars, cfgVars, runVars, raceVars, addVars>>
nonLoaderVars == <<nameVars, cfgVars, runVars, raceVars, addVars>>
nonNameVars == <<loaderVars, cfgVars, runVars, raceVars, addVars>>
nonCfgVars == <<loaderVars, nameVars, runVars, raceVars, addVars>>
nonRunVars == <<loaderVars, nameVars, cfgVars, raceVars, addVars>>
nonRaceVars == <<loaderVars, nameVars, cfgVars, runVars, addVars>>
nonAddVars == <<loaderVars, nameVars, cfgVars, runVars, raceVars>>

\* the parts of the state a specification does not use stay at these values
LoaderIdle ==
    /\ dist_files = <<>> /\ user_files = <<>> /\ plans = <<>>
    /\ pc = "idle" /\ i = 0 /\ ret = [called |-> FALSE]
NameIdle ==
    /\ n_args = <<>> /\ n_name = <<>> /\ n_ports = <<>> /\ npc = "idle"
CfgIdle ==
    /\ config_file = <<>> /\ config = <<>> /\ cpc = "idle"
    /\ procs = 0 /\ generated = 0 /\ issued = {}
RunIdle ==
    /\ r_plan = <<>> /\ cmd = "idle" /\ r_args = <<>> /\ rpc = "idle" /\ images = {}
    /\ network = FALSE /\ running = <<>> /\ calls = <<>> /\ idx = 0
    /\ listed = <<>> /\ depth = 0 /\ caller = "idle"
RaceIdle ==
    /\ q_plan = <<>> /\ q_pc = <<>> /\ q_seen = <<>> /\ q_running = <<>>
    /\ q_calls = <<>>
AddIdle ==
    /\ a_plan = <<>> /\ a_extra = <<>> /\ a_result = <<>> /\ apc = "idle"

-----------------------------------------------------------------------------
(* Bounds of the model *)

MaxPort == 2        \* port numbers are 0..MaxPort
MaxMapLen == 2      \* entries of a ports mapping
MaxListLen == 2     \* elements of a ports list
MaxVolumes == 2     \* entries of a volumes mapping
MaxDistFiles == 1   \* plan files in the distribution directory
MaxUserFiles == 2   \* plan files in the user directory

-----------------------------------------------------------------------------
(* Values *)

Null == [null |-> TRUE]
IntVal(n) == [int |-> n]
StrVal(s) == [str |-> s]
MapVal(s) == [map |-> s]
ListVal(s) == [list |-> s]

Raised(kind) == [raised |-> kind]
IsRaised(x) == "raised" \in DOMAIN x

Empty == [k \in {} |-> Null]

SeqsUpTo(S, n) == UNION {[1..m -> S] : m \in 0..n}

DistinctKeys(s) == \A a, b \in 1..Len(s) : a # b => s[a][1] # s[b][1]

\* bool(v) of Python for the values a ports declaration can take
truthy(v) ==
    IF "null" \in DOMAIN v THEN FALSE
    ELSE IF "int" \in DOMAIN v THEN v.int # 0
    ELSE IF "str" \in DOMAIN v THEN v.str # ""
    ELSE IF "map" \in DOMAIN v THEN Len(v.map) > 0
    ELSE Len(v.list) > 0

\* Python dict operations on a sequence of <<key, value>> entries
dict_has(m, k) == \E j \in 1..Len(m) : m[j][1] = k
dict_get(m, k) == m[CHOOSE j \in 1..Len(m) : m[j][1] = k][2]
dict_pop(m, k) == SelectSeq(m, LAMBDA e : e[1] # k)
dict_set(m, k, v) ==
    IF dict_has(m, k)
    THEN [j \in 1..Len(m) |-> IF m[j][1] = k THEN <<k, v>> ELSE m[j]]
    ELSE Append(m, <<k, v>>)

\* str(Path(v).expanduser().resolve()) on the host paths of the model, for a
\* user whose home is /home/user: a trailing slash is dropped, ~ is expanded
HostPaths == {"/a", "/a/", "~/a", "/home/user/a"}
normalise(v) ==
    CASE v = "/a" -> "/a"
      [] v = "/a/" -> "/a"
      [] v = "~/a" -> "/home/user/a"
      [] v = "/home/user/a" -> "/home/user/a"

-----------------------------------------------------------------------------
(* class Plan *)

\* Plan.__init__
Plan(p) ==
    [plan_path |-> p, name |-> "", image |-> "", dockerfile |-> "",
     command |-> "", volumes |-> <<>>, ports |-> MapVal(<<>>),
     exposed_ports |-> <<>>, environment |-> <<>>, detach |-> FALSE,
     tty |-> FALSE, version |-> "latest", container |-> "Container",
     valid |-> TRUE, required_keys |-> {"name", "image"},
     overridden |-> {}]   \* methods shadowed by an instance attribute

PlanAttrs == DOMAIN Plan(<<"dist", 1>>) \ {"overridden"}
PlanMethods == {"has_required_keys", "from_dict", "validate_volumes",
                "populate_ports", "check_host_ports", "has_dockerfile",
                "add_commands", "image_version", "run_options"}
\* dir(self): what the setattr loop of from_dict accepts
PlanDir == PlanAttrs \cup PlanMethods

\* the keys section 6 of the specification documents for a plan file
RecognizedKeys == {"name", "image", "version", "command", "volumes", "ports",
                   "environment", "detach", "tty", "dockerfile"}

has_required_keys(self, d) == self.required_keys \subseteq DOMAIN d

RECURSIVE validate_volumes_loop(_, _, _)
validate_volumes_loop(self, keys, j) ==
    IF j > Len(keys) THEN self
    ELSE LET v == keys[j]
             o == dict_get(self.volumes, v)
         IN  IF "null" \in DOMAIN o THEN Raised("TypeError")
             ELSE IF "bind" \notin DOMAIN o
                  THEN [self EXCEPT !.valid = FALSE]
                  ELSE validate_volumes_loop(
                         [self EXCEPT !.volumes =
                            dict_set(dict_pop(self.volumes, v), normalise(v), o)],
                         keys, j + 1)

validate_volumes(self) ==
    IF Len(self.volumes) = 0 THEN self
    ELSE validate_volumes_loop(self, [j \in 1..Len(self.volumes) |-> self.volumes[j][1]], 1)

\* the mapping branch: the return sits inside the for loop
populate_ports_dict(entries, exposed_ports) ==
    IF Len(entries) = 0 THEN exposed_ports
    ELSE Append(exposed_ports, <<entries[1][1], entries[1][2]>>)

RECURSIVE populate_ports(_, _)
RECURSIVE populate_ports_list(_, _, _)
\* the pairs in self.exposed_ports after populate_ports() with self.ports = ports
populate_ports(ports, exposed_ports) ==
    IF ~truthy(ports) THEN exposed_ports
    ELSE IF "int" \in DOMAIN ports
         THEN Append(exposed_ports, <<ports.int, ports.int>>)
    ELSE IF "map" \in DOMAIN ports
         THEN populate_ports_dict(ports.map, exposed_ports)
    ELSE IF "list" \in DOMAIN ports
         THEN populate_ports_list(ports.list, 1, exposed_ports)
    ELSE exposed_ports

populate_ports_list(o, j, exposed_ports) ==
    IF j > Len(o) THEN exposed_ports
    ELSE populate_ports_list(o, j + 1, populate_ports(o[j], exposed_ports))

check_host_ports_mut_inside(exposed_ports, valid) ==
    valid /\ \A a, b \in 1..Len(exposed_ports) :
                a < b => exposed_ports[a][1] # exposed_ports[b][1]

RECURSIVE check_host_ports_loop(_, _, _, _)
check_host_ports_loop(exposed_ports, j, h, valid) ==
    IF j > Len(exposed_ports) THEN valid
    ELSE LET outside == exposed_ports[j][2]
         IN  check_host_ports_loop(exposed_ports, j + 1, Append(h, outside),
                 IF \E n \in 1..Len(h) : h[n] = outside THEN FALSE ELSE valid)

\* the value of self.valid after check_host_ports()
check_host_ports(exposed_ports, valid) ==
    check_host_ports_loop(exposed_ports, 1, <<>>, valid)

\* for k, v in d.items(): setattr(self, k, v) if k in dir(self) else None
set_attributes(self, d) ==
    [f \in DOMAIN self |->
        IF f = "overridden" THEN DOMAIN d \cap PlanMethods
        ELSE IF f \in DOMAIN d THEN d[f]
        ELSE self[f]]

from_dict(self, d) ==
    IF "null" \in DOMAIN d THEN Raised("TypeError")   \* issubset(None)
    ELSE
    LET s1 == IF ~has_required_keys(self, d) THEN [self EXCEPT !.valid = FALSE] ELSE self
        s2 == set_attributes(s1, d)
    IN  IF "validate_volumes" \in s2.overridden THEN Raised("TypeError")
        ELSE LET s3 == validate_volumes(s2)
             IN  IF IsRaised(s3) THEN s3
                 ELSE IF "populate_ports" \in s3.overridden THEN Raised("TypeError")
                 ELSE LET s4 == [s3 EXCEPT !.exposed_ports = populate_ports(s3.ports, s3.exposed_ports)]
                      IN  IF "check_host_ports" \in s4.overridden THEN Raised("TypeError")
                          ELSE [s4 EXCEPT !.valid = check_host_ports(s4.exposed_ports, s4.valid),
                                          !.ports = MapVal(<<>>)]

-----------------------------------------------------------------------------
(* class Loader *)

RECURSIVE get_plan_loop(_, _, _, _)
get_plan_loop(ps, j, name, valid_only) ==
    IF j > Len(ps) THEN 0
    ELSE IF ps[j].name = name /\ (~valid_only \/ ps[j].valid) THEN j
    ELSE get_plan_loop(ps, j + 1, name, valid_only)

\* a get_plan that forgets the valid_only test
get_plan_mut_any(ps, name, valid_only) ==
    get_plan_loop(ps, 1, name, FALSE)

\* Loader.get_plan: the index in Loader.plans of the plan returned, 0 for None
get_plan(ps, name, valid_only) ==
    get_plan_loop(ps, 1, name, valid_only)

\* Loader.valid_plans, as the indices it keeps, in order
valid_plans(ps) ==
    SelectSeq([j \in 1..Len(ps) |-> j], LAMBDA j : ps[j].valid)

-----------------------------------------------------------------------------
(* The plan files the model loads *)

Opt(k, Vals) == {Empty} \cup {k :> v : v \in Vals}

PortNums == 0..MaxPort
PortInts == {IntVal(n) : n \in PortNums}
PortMaps ==
    {MapVal(s) : s \in {e \in SeqsUpTo(PortNums \X PortNums, MaxMapLen) : DistinctKeys(e)}}
ListElems ==
    {IntVal(0), IntVal(1), IntVal(2), MapVal(<<<<1, 2>>>>),
     MapVal(<<<<1, 1>>, <<2, 2>>>>), MapVal(<<>>),
     ListVal(<<IntVal(2), MapVal(<<<<2, 1>>>>)>>), StrVal("80/tcp")}
PortLists == {ListVal(s) : s \in SeqsUpTo(ListElems, MaxListLen)}
PortsVals == PortInts \cup PortMaps \cup PortLists \cup {StrVal("80/tcp"), Null}

Descriptors == {[bind |-> "/x"], [bind |-> "/y"], [mode |-> "ro"], Null}
VolumeVals ==
    {e \in SeqsUpTo(HostPaths \X Descriptors, MaxVolumes) : DistinctKeys(e)}

Named == ("name" :> "tool") @@ ("image" :> "img")

\* every combination of the keys the validity of a plan depends on
KeyDocs ==
    {n @@ im @@ va @@ ex @@ ot @@ vo @@ po :
        n \in Opt("name", {"", "tool"}),
        im \in Opt("image", {"", "img"}),
        va \in Opt("valid", BOOLEAN),
        ex \in Opt("exposed_ports", {<<<<1, 2>>>>}),
        ot \in Opt("maintainer", {"me"}) \cup Opt("check_host_ports", {"off"}),
        vo \in Opt("volumes", {<<<<"~/a", [bind |-> "/x"]>>>>,
                                <<<<"/a", [mode |-> "ro"]>>>>}),
        po \in Opt("ports", {IntVal(1), ListVal(<<IntVal(1), MapVal(<<<<2, 1>>>>)>>)})}

PortDocs ==
    {Named @@ ex @@ ("ports" :> p) :
        ex \in Opt("exposed_ports", {<<<<1, 2>>>>}), p \in PortsVals}

VolumeDocs == {Named @@ ("volumes" :> v) : v \in VolumeVals}

RawDocs == KeyDocs \cup PortDocs \cup VolumeDocs

\* the documents of the multi-file deployments
LoaderDocs ==
    {Null, Empty, Named,
     Named @@ ("ports" :> ListVal(<<IntVal(1), IntVal(1)>>)),
     ("name" :> "other") @@ ("image" :> "img"),
     ("image" :> "img"),
     ("name" :> "tool"),
     Named @@ ("volumes" :> <<<<"/a", Null>>>>)}

Deployments ==
    {<<<<d>>, <<>>>> : d \in RawDocs}
    \cup {<<<<>>, <<d>>>> : d \in KeyDocs}
    \cup (SeqsUpTo(LoaderDocs, MaxDistFiles) \X SeqsUpTo(LoaderDocs, MaxUserFiles))

Names == {"", "tool", "other"}

-----------------------------------------------------------------------------
(* Loader.__init__ *)

Init ==
    /\ \E dep \in Deployments : dist_files = dep[1] /\ user_files = dep[2]
    /\ plans = <<>>
    /\ pc = "load_dist_plans"
    /\ i = 1
    /\ ret = [called |-> FALSE]
    /\ NameIdle
    /\ CfgIdle
    /\ RunIdle
    /\ RaceIdle
    /\ AddIdle

\* one iteration of the loop of load_dist_plans
LoadDistPlan ==
    /\ pc = "load_dist_plans"
    /\ i <= Len(dist_files)
    /\ LET p == from_dict(Plan(<<"dist", i>>), dist_files[i])
       IN  IF IsRaised(p)
           THEN pc' = "raised" /\ UNCHANGED <<plans, i>>
           ELSE plans' = Append(plans, p) /\ i' = i + 1 /\ UNCHANGED pc
    /\ UNCHANGED <<dist_files, user_files, ret>>
    /\ UNCHANGED nonLoaderVars

\* load_dist_plans returns, load_user_plans starts
EndDistPlans ==
    /\ pc = "load_dist_plans"
    /\ i > Len(dist_files)
    /\ pc' = "load_user_plans"
    /\ i' = 1
    /\ UNCHANGED <<dist_files, user_files, plans, ret>>
    /\ UNCHANGED nonLoaderVars

\* one iteration of the loop of load_user_plans
LoadUserPlan ==
    /\ pc = "load_user_plans"
    /\ i <= Len(user_files)
    /\ LET d == user_files[i]
       IN  IF "null" \in DOMAIN d \/ DOMAIN d = {}          \* if not d: continue
           THEN i' = i + 1 /\ UNCHANGED <<plans, pc>>
           ELSE IF "name" \notin DOMAIN d                   \* d['name']
           THEN pc' = "raised" /\ UNCHANGED <<plans, i>>
           ELSE LET p == from_dict(Plan(<<"user", i>>), d)
                IN  IF IsRaised(p)
                    THEN pc' = "raised" /\ UNCHANGED <<plans, i>>
                    ELSE plans' = Append(plans, p) /\ i' = i + 1 /\ UNCHANGED pc
    /\ UNCHANGED <<dist_files, user_files, ret>>
    /\ UNCHANGED nonLoaderVars

\* load_user_plans returns: the Loader is constructed
EndUserPlans ==
    /\ pc = "load_user_plans"
    /\ i > Len(user_files)
    /\ pc' = "done"
    /\ UNCHANGED <<dist_files, user_files, plans, i, ret>>
    /\ UNCHANGED nonLoaderVars

\* a caller's loader.get_plan(name, valid_only)
GetPlan ==
    /\ pc = "done"
    /\ \E name \in Names, valid_only \in BOOLEAN :
          ret' = [called |-> TRUE, name |-> name, valid_only |-> valid_only,
                  plan |-> get_plan(plans, name, valid_only)]
    /\ UNCHANGED <<dist_files, user_files, plans, pc, i>>
    /\ UNCHANGED nonLoaderVars

Next ==
    \/ LoadDistPlan
    \/ EndDistPlans
    \/ LoadUserPlan
    \/ EndUserPlans
    \/ GetPlan

Spec == Init /\ [][Next]_vars

-----------------------------------------------------------------------------
(* Properties *)

\* the raw document plans[j] was built from
Raw(j) ==
    IF plans[j].plan_path[1] = "dist"
    THEN dist_files[plans[j].plan_path[2]]
    ELSE user_files[plans[j].plan_path[2]]

OnlyRecognized(d) == DOMAIN d \subseteq RecognizedKeys

HasPortsOf(d, tag) == "ports" \in DOMAIN d /\ tag \in DOMAIN d.ports

HasDuplicateOutside(exposed_ports) ==
    \E a, b \in 1..Len(exposed_ports) :
        a # b /\ exposed_ports[a][2] = exposed_ports[b][2]

RECURSIVE ConcatNormalised(_, _)
\* the pairs of each element of a ports list normalised on its own, concatenated
ConcatNormalised(l, j) ==
    IF j > Len(l) THEN <<>>
    ELSE populate_ports(l[j], <<>>) \o ConcatNormalised(l, j + 1)

\* C1: a ports mapping with n >= 1 entries yields exactly one pair
\* (inside, outside) per entry, in iteration order, none dropped (stated for
\* plan files that carry recognized keys only).
C1_EveryMappingEntryExposed ==
    \A j \in 1..Len(plans) :
        LET d == Raw(j)
        IN  (OnlyRecognized(d) /\ HasPortsOf(d, "map") /\ Len(d.ports.map) >= 1)
                => plans[j].exposed_ports = d.ports.map

\* C2: a ports list yields exposed_ports equal to the concatenation, in list
\* order, of the pairs obtained by normalising each element on its own.
C2_ListIsConcatenation ==
    \A j \in 1..Len(plans) :
        LET d == Raw(j)
        IN  HasPortsOf(d, "list")
                => plans[j].exposed_ports = ConcatNormalised(d.ports.list, 1)

\* C3: an integer p as the raw ports value yields exposed_ports = [(p, p)]
\* (stated for plan files that carry recognized keys only).
C3_IntegerYieldsOnePair ==
    \A j \in 1..Len(plans) :
        LET d == Raw(j)
        IN  (OnlyRecognized(d) /\ HasPortsOf(d, "int"))
                => plans[j].exposed_ports = <<<<d.ports.int, d.ports.int>>>>

\* C4: a loaded plan whose exposed_ports holds two pairs with the same outside
\* (host) port has valid = false.
C4_DuplicateHostPortInvalid ==
    \A j \in 1..Len(plans) :
        HasDuplicateOutside(plans[j].exposed_ports) => ~plans[j].valid

\* C4 happens: a plan file with both required keys that authors valid: true
\* and two different inside ports on one host port is loaded as invalid.
C4_Witness ==
    \E j \in 1..Len(plans) :
        LET d == Raw(j)
        IN  /\ {"name", "image", "valid"} \subseteq DOMAIN d
            /\ d.valid
            /\ "volumes" \notin DOMAIN d
            /\ \E a, b \in 1..Len(plans[j].exposed_ports) :
                  /\ plans[j].exposed_ports[a][2] = plans[j].exposed_ports[b][2]
                  /\ plans[j].exposed_ports[a][1] # plans[j].exposed_ports[b][1]
            /\ ~plans[j].valid

\* C5: a loaded plan that declares at least one volume whose descriptor has
\* no bind target has valid = false.
C5_VolumeWithoutBindInvalid ==
    \A j \in 1..Len(plans) :
        LET d == Raw(j)
        IN  ("volumes" \in DOMAIN d
             /\ \E n \in 1..Len(d.volumes) :
                   "null" \notin DOMAIN d.volumes[n][2]
                   /\ "bind" \notin DOMAIN d.volumes[n][2])
                => ~plans[j].valid

\* C6: a raw mapping that lacks the key name or the key image ends with
\* valid = false, whatever other keys it carries.
C6_MissingRequiredKeyInvalid ==
    \A j \in 1..Len(plans) :
        ~({"name", "image"} \subseteq DOMAIN Raw(j)) => ~plans[j].valid

\* C7: every plan with valid = true has a non-empty name and a non-empty
\* image (stated for plan files that carry recognized keys only).
C7_ValidHasNameAndImage ==
    \A j \in 1..Len(plans) :
        (OnlyRecognized(Raw(j)) /\ plans[j].valid)
            => (plans[j].name # "" /\ plans[j].image # "")

\* the raw mapping without its unrecognized keys
Strip(d) == [k \in DOMAIN d \cap RecognizedKeys |-> d[k]]

\* C8: keys outside the recognized plan-file keys have no effect on the Plan
\* built: the plan equals the one built from the mapping without them.
C8_UnrecognizedKeysNoEffect ==
    \A j \in 1..Len(plans) :
        plans[j] = from_dict(Plan(plans[j].plan_path), Strip(Raw(j)))

\* a plan file whose only faults are spec errors: a mapping of recognized
\* keys, each volume descriptor a mapping
SpecLevelFile(d) ==
    /\ "null" \notin DOMAIN d
    /\ OnlyRecognized(d)
    /\ "volumes" \in DOMAIN d =>
          \A n \in 1..Len(d.volumes) : "null" \notin DOMAIN d.volumes[n][2]

\* C9: plan files with spec errors never abort Loader construction.
C9_SpecErrorNeverAborts ==
    ((\A n \in 1..Len(dist_files) : SpecLevelFile(dist_files[n]))
     /\ (\A n \in 1..Len(user_files) : SpecLevelFile(user_files[n])))
        => pc # "raised"

FirstQualifying(name, valid_only) ==
    LET S == {j \in 1..Len(plans) :
                plans[j].name = name /\ (valid_only => plans[j].valid)}
    IN  IF S = {} THEN 0 ELSE CHOOSE j \in S : \A k \in S : j <= k

DistBeforeUser ==
    \A a, b \in 1..Len(plans) :
        (plans[a].plan_path[1] = "user" /\ plans[b].plan_path[1] = "dist") => b < a

\* C10: get_plan(name, valid_only) returns the first plan in load order
\* (distribution directory before user directory) whose name equals name,
\* skipping invalid plans when valid_only, and None when there is none.
C10_GetPlanFirstQualifying ==
    /\ DistBeforeUser
    /\ ret.called => ret.plan = FirstQualifying(ret.name, ret.valid_only)

\* C10 happens: two loaded plans share a name, the distribution one invalid,
\* the user one valid, and get_plan(name, valid_only=True) returned the second.
C10_Witness ==
    /\ ret.called
    /\ ret.valid_only
    /\ Len(plans) >= 2
    /\ plans[1].name = ret.name /\ plans[2].name = ret.name
    /\ plans[1].plan_path[1] = "dist" /\ plans[2].plan_path[1] = "user"
    /\ ~plans[1].valid /\ plans[2].valid
    /\ ret.plan = 2

-----------------------------------------------------------------------------
(* Object names.  A name is the sequence of its characters. *)

Digits == <<"0", "1", "2", "3", "4", "5", "6", "7", "8", "9">>

RECURSIVE str_int(_)
\* str(n) of a non-negative integer, as the f-strings format a port
str_int(n) ==
    IF n < 10 THEN <<Digits[n + 1]>>
    ELSE str_int(n \div 10) \o <<Digits[(n % 10) + 1]>>

\* an object_name that leaves the plan name out
object_name_mut_no_plan(object_prefix, p) == object_prefix \o <<"_">>

\* Config.object_name
object_name(object_prefix, p) == object_prefix \o <<"_">> \o p

\* Container.get_container_name
get_container_name(object_prefix, plan_name) == object_name(object_prefix, plan_name)

\* Container.get_net_container_name
get_net_container_name(object_prefix, plan_name) ==
    object_name(object_prefix, plan_name) \o <<"_", "n", "e", "t", "_">>

\* a name format with the two ports the wrong way round
get_net_container_name_with_ports_mut_swapped(object_prefix, plan_name, outside, inside) ==
    get_net_container_name(object_prefix, plan_name)
        \o str_int(inside) \o <<"_">> \o str_int(outside)

\* Container.get_net_container_name_with_ports
get_net_container_name_with_ports(object_prefix, plan_name, outside, inside) ==
    get_net_container_name(object_prefix, plan_name)
        \o str_int(outside) \o <<"_">> \o str_int(inside)

\* str.startswith
startswith(s, prefix) ==
    Len(prefix) <= Len(s) /\ SubSeq(s, 1, Len(prefix)) = prefix

\* sub in s
contains(s, sub) ==
    \E a \in 1..(Len(s) - Len(sub) + 1) : SubSeq(s, a, a + Len(sub) - 1) = sub

RECURSIVE split_loop(_, _, _, _)
split_loop(s, sep, j, token) ==
    IF j > Len(s) THEN <<token>>
    ELSE IF s[j] = sep THEN <<token>> \o split_loop(s, sep, j + 1, <<>>)
    ELSE split_loop(s, sep, j + 1, Append(token, s[j]))

\* str.split(sep) for a separator of one character
split(s, sep) == split_loop(s, sep, 1, <<>>)

\* candidate[-2:]
last_two(candidate) ==
    IF Len(candidate) <= 2 THEN candidate
    ELSE SubSeq(candidate, Len(candidate) - 1, Len(candidate))

\* the loop body of Container.ports for one container name: the entries it
\* appends to p, <<>> when it continues
ports_of_name(name) ==
    IF ~contains(name, <<"_", "n", "e", "t", "_">>) THEN <<>>
    ELSE LET port_map == last_two(split(name, "_"))
         IN  IF Len(port_map) # 2 THEN <<>>
             ELSE <<<<port_map[1], port_map[2]>>>>

-----------------------------------------------------------------------------
(* Building a proxy container name and reading the ports back from it *)

MaxNamePort == 11   \* the ports of a name are 0..MaxNamePort

ObjectPrefixes == {<<"d", "w", "n", "_", "a", "b">>, <<"x">>}
PlanNames ==
    {<<"t">>, <<"a", "_", "b">>, <<"t", "_", "n", "e", "t", "_", "1">>, <<>>}

NameInit ==
    /\ LoaderIdle
    /\ CfgIdle
    /\ RunIdle
    /\ RaceIdle
    /\ AddIdle
    /\ n_args \in [object_prefix : ObjectPrefixes, plan_name : PlanNames,
                   outside : 0..MaxNamePort, inside : 0..MaxNamePort]
    /\ n_name = <<>>
    /\ n_ports = <<>>
    /\ npc = "args"

\* run_net names the proxy container
BuildName ==
    /\ npc = "args"
    /\ n_name' = get_net_container_name_with_ports(
                    n_args.object_prefix, n_args.plan_name, n_args.outside, n_args.inside)
    /\ npc' = "named"
    /\ UNCHANGED <<n_args, n_ports>>
    /\ UNCHANGED nonNameVars

\* Container.ports meets the container of that name
ParsePorts ==
    /\ npc = "named"
    /\ n_ports' = ports_of_name(n_name)
    /\ npc' = "parsed"
    /\ UNCHANGED <<n_args, n_name>>
    /\ UNCHANGED nonNameVars

NameNext == BuildName \/ ParsePorts

NameSpec == NameInit /\ [][NameNext]_vars

RECURSIVE int_of_loop(_, _, _)
int_of_loop(token, j, acc) ==
    IF j > Len(token) THEN acc
    ELSE int_of_loop(token, j + 1,
            10 * acc + (CHOOSE v \in 0..9 : Digits[v + 1] = token[j]))

\* the number a token of decimal digits stands for, -1 for any other token
int_of(token) ==
    IF Len(token) = 0 \/ \E j \in 1..Len(token) : \A v \in 1..10 : Digits[v] # token[j]
    THEN -1
    ELSE int_of_loop(token, 1, 0)

\* C11: the name built by get_net_container_name_with_ports(outside, inside)
\* round-trips: Container.ports, splitting it on underscores and taking the
\* last two tokens, yields one entry, the decimal text of (outside, inside).
C11_ProxyNameRoundTrips ==
    npc = "parsed" =>
        /\ Len(n_ports) = 1
        /\ int_of(n_ports[1][1]) = n_args.outside
        /\ int_of(n_ports[1][2]) = n_args.inside

\* C11 happens: a name for a plan whose own name holds underscores and _net_,
\* with two different ports of two digits, was parsed back.
C11_Witness ==
    /\ npc = "parsed"
    /\ contains(n_args.plan_name, <<"_", "n", "e", "t", "_">>)
    /\ n_args.outside >= 10 /\ n_args.inside >= 10
    /\ n_args.outside # n_args.inside
    /\ n_ports = <<<<str_int(n_args.outside), str_int(n_args.inside)>>>>

-----------------------------------------------------------------------------
(* class Config (src/dwn/config.py), over a sequence of process starts *)

MaxProcesses == 2   \* process starts

\* 'dwn_' + four random lowercase letters: the values random.choice can give
RandomPrefixes ==
    {<<"d", "w", "n", "_", "a", "a", "a", "a">>,
     <<"d", "w", "n", "_", "z", "z", "z", "z">>}

\* what CONFIG_PATH can hold before the first process starts
InitialConfigFiles ==
    {Empty,
     ("object_prefix" :> <<"m", "i", "n", "e">>),
     ("network_name" :> "lab"),
     ("object_prefix" :> <<"d", "w", "n", "_", "q", "q", "q", "q">>)
        @@ ("network_name" :> "dwn") @@ ("network_container_name" :> "dwn-network:local")}

\* self.config[k] = v followed by self.write(): the pair <<config, file>>
set_default(cf, k, v) ==
    IF k \in DOMAIN cf[1] THEN cf
    ELSE LET c == cf[1] @@ (k :> v) IN <<c, c>>

\* an ensure_defaults that generates a prefix on every start
ensure_defaults_mut_always(cfg, file, rnd) ==
    LET c == (("object_prefix" :> rnd) @@ cfg)
                @@ ("network_name" :> "dwn")
                @@ ("network_container_name" :> "dwn-network:local")
    IN  <<c, c>>

\* Config.ensure_defaults with rnd the prefix the random choices give:
\* <<self.config, the file>> afterwards
ensure_defaults(cfg, file, rnd) ==
    set_default(
        set_default(
            set_default(<<cfg, file>>, "object_prefix", rnd),
            "network_name", "dwn"),
        "network_container_name", "dwn-network:local")

\* Config.__init__, run when a process imports dwn.config
StartProcess ==
    /\ cpc = "no_process"
    /\ procs < MaxProcesses
    /\ \E rnd \in RandomPrefixes :
          LET loaded == config_file     \* yaml.load; None becomes {}
              cf == ensure_defaults(loaded, config_file, rnd)
          IN  /\ config' = cf[1]
              /\ config_file' = cf[2]
              /\ generated' = IF cf[1].object_prefix = rnd
                                 /\ "object_prefix" \notin DOMAIN loaded
                              THEN generated + 1 ELSE generated
    /\ cpc' = "running"
    /\ procs' = procs + 1
    /\ UNCHANGED issued
    /\ UNCHANGED nonCfgVars

\* config.object_name(p) in the running process
ObjectName ==
    /\ cpc = "running"
    /\ \E p \in PlanNames :
          issued' = issued \cup
              {[proc |-> procs, p |-> p, name |-> object_name(config.object_prefix, p)]}
    /\ UNCHANGED <<config_file, config, cpc, procs, generated>>
    /\ UNCHANGED nonCfgVars

\* the process ends
ExitProcess ==
    /\ cpc = "running"
    /\ cpc' = "no_process"
    /\ config' = <<>>
    /\ UNCHANGED <<config_file, procs, generated, issued>>
    /\ UNCHANGED nonCfgVars

CfgInit ==
    /\ LoaderIdle
    /\ NameIdle
    /\ RunIdle
    /\ RaceIdle
    /\ AddIdle
    /\ config_file \in InitialConfigFiles
    /\ config = <<>>
    /\ cpc = "no_process"
    /\ procs = 0
    /\ generated = 0
    /\ issued = {}

CfgNext == StartProcess \/ ObjectName \/ ExitProcess

CfgSpec == CfgInit /\ [][CfgNext]_vars

\* C12: for a fixed config (one process), object_name returns the same string
\* for the same plan name and different strings for different plan names.
C12_ObjectNameInjective ==
    \A e1, e2 \in issued :
        e1.proc = e2.proc => ((e1.p = e2.p) <=> (e1.name = e2.name))

\* C12 happens: one process asked for the names of the empty plan name and of
\* two other plan names, one of them holding an underscore.
C12_Witness ==
    \E e1, e2, e3 \in issued :
        /\ e1.proc = e2.proc /\ e2.proc = e3.proc
        /\ e1.p = <<>> /\ e2.p = <<"t">> /\ e3.p = <<"a", "_", "b">>
        /\ e1.name # e2.name /\ e2.name # e3.name /\ e1.name # e3.name

\* C19: an object_prefix is generated only when the config file has none;
\* once one is persisted no step changes it, every process that starts
\* reads it, and a plan name gets the same object name in every process.
C19_PrefixPersistedOnce ==
    [][/\ "object_prefix" \in DOMAIN config_file =>
            /\ "object_prefix" \in DOMAIN config_file'
            /\ config_file'.object_prefix = config_file.object_prefix
            /\ generated' = generated
       /\ cpc' = "running" =>
            /\ "object_prefix" \in DOMAIN config_file'
            /\ config'.object_prefix = config_file'.object_prefix
       /\ \A e1 \in issued', e2 \in issued' : e1.p = e2.p => e1.name = e2.name
      ]_vars

\* C19 happens: the file had no prefix, the first process generated one, and
\* a second process issued the same object name as the first.
C19_Witness ==
    /\ generated = 1
    /\ procs = 2
    /\ \E e1, e2 \in issued :
          e1.proc = 1 /\ e2.proc = 2 /\ e1.p = e2.p /\ e1.name = e2.name

-----------------------------------------------------------------------------
(* class Container and the run and stop commands, one runtime call a step. *)
(* An image reference is the pair <<repository, tag>>.                      *)

MaxRecursion == 3   \* nested _ensure_net_exists frames Python allows

RunPrefix == <<"d">>                             \* config.object_prefix()
net_name == "dwn"                                \* config.net_name()
net_container_name == <<"dwn-network", "local">> \* config.net_container_name()

\* str.upper, letter by letter
upper(s) ==
    [j \in 1..Len(s) |->
        CASE s[j] = "f" -> "F" [] s[j] = "r" -> "R" [] s[j] = "o" -> "O"
          [] s[j] = "m" -> "M" [] OTHER -> s[j]]

\* Plan.has_dockerfile
has_dockerfile(self) ==
    IF Len(self.dockerfile) <= 0 THEN FALSE
    ELSE contains(upper(self.dockerfile), <<"F", "R", "O", "M">>)

\* an image_version that never overrides the version
image_version_mut_version(self) == <<self.image, self.version>>

\* Plan.image_version
image_version(self) ==
    <<self.image, IF has_dockerfile(self) THEN "dwnlocal" ELSE self.version>>

\* a run_options that publishes the exposed ports on the main container
run_options_mut_publish(self) ==
    [name |-> self.name, stdout |-> TRUE, stderr |-> TRUE,
     command |-> self.command, remove |-> TRUE, volumes |-> self.volumes,
     ports |-> MapVal(self.exposed_ports), tty |-> self.tty,
     stdin_open |-> IF self.tty THEN self.tty ELSE FALSE,
     environment |-> self.environment, detach |-> TRUE]

\* Plan.run_options
run_options(self) ==
    [name |-> self.name, stdout |-> TRUE, stderr |-> TRUE,
     command |-> self.command, remove |-> TRUE, volumes |-> self.volumes,
     ports |-> self.ports, tty |-> self.tty,
     stdin_open |-> IF self.tty THEN self.tty ELSE FALSE,
     environment |-> self.environment, detach |-> TRUE]

\* the containers.run call of Container.run
run_call(object_prefix, self) ==
    [op |-> "containers.run", image |-> image_version(self), network |-> net_name]
        @@ [run_options(self) EXCEPT !.name = get_container_name(object_prefix, self.name)]

\* a run_net that hands the two ports to the proxy the wrong way round
run_net_call_mut_swapped(object_prefix, self, outside, inside) ==
    [op |-> "containers.run", image |-> net_container_name, detach |-> TRUE,
     environment |-> [REMOTE_HOST |-> get_container_name(object_prefix, self.name),
                      REMOTE_PORT |-> outside, LOCAL_PORT |-> inside],
     stderr |-> TRUE, stdout |-> TRUE, remove |-> TRUE, network |-> net_name,
     ports |-> MapVal(<<<<outside, outside>>>>),
     name |-> get_net_container_name_with_ports(object_prefix, self.name, outside, inside)]

\* the containers.run call of Container.run_net
run_net_call(object_prefix, self, outside, inside) ==
    [op |-> "containers.run", image |-> net_container_name, detach |-> TRUE,
     environment |-> [REMOTE_HOST |-> get_container_name(object_prefix, self.name),
                      REMOTE_PORT |-> inside, LOCAL_PORT |-> outside],
     stderr |-> TRUE, stdout |-> TRUE, remove |-> TRUE, network |-> net_name,
     ports |-> MapVal(<<<<outside, outside>>>>),
     name |-> get_net_container_name_with_ports(object_prefix, self.name, outside, inside)]

\* a for loop over exposed_ports that starts at the far end
run_port_map_mut_reversed(exposed_ports, j) == exposed_ports[Len(exposed_ports) + 1 - j]

\* the port_map of the j-th iteration of the for loop of Container.run
run_port_map(exposed_ports, j) == exposed_ports[j]

\* a containers() that compares with the bare plan name
containers_mut_unprefixed(object_prefix, self, list) ==
    SelectSeq(list, LAMBDA container :
        \/ container.name = self.name
        \/ startswith(container.name, self.name \o <<"_", "n", "e", "t", "_">>))

\* Container.containers over the list the runtime returns
containers(object_prefix, self, list) ==
    SelectSeq(list, LAMBDA container :
        \/ container.name = get_container_name(object_prefix, self.name)
        \/ startswith(container.name, get_net_container_name(object_prefix, self.name)))

\* a stop whose handlers let an error that is not NotFound escape
stop_except_mut_raise(result) ==
    CASE result = "ok" -> "none" [] result = "NotFound" -> "pass" [] OTHER -> "raise"

\* the except clauses of Container.stop, by the result of container.stop()
stop_except(result) ==
    CASE result = "ok" -> "none" [] result = "NotFound" -> "pass" [] OTHER -> "warn"

\* a run command that returns on NotFound without stopping
attach_except_mut_return(result) ==
    CASE result = "stream_end" -> "stop" [] result = "NotFound" -> "return"
      [] OTHER -> "raise"

\* what the run command does after service.attach, by how the log stream went
attach_except(result) ==
    CASE result = "stream_end" -> "stop" [] result = "NotFound" -> "stop"
      [] OTHER -> "raise"

\* a stop_net that takes every proxy of the plan
stop_net_selects_mut_any_proxy(object_prefix, self, name, outside, inside) ==
    startswith(name, get_net_container_name(object_prefix, self.name))

\* the if of Container.stop_net: whether the container of that name is stopped
stop_net_selects(object_prefix, self, name, outside, inside) ==
    name = get_net_container_name_with_ports(object_prefix, self.name, outside, inside)

RECURSIVE ports_loop(_, _)
ports_loop(list, j) ==
    IF j > Len(list) THEN <<>>
    ELSE ports_of_name(list[j].name) \o ports_loop(list, j + 1)

\* Container.ports over the list the runtime returns
Container_ports(object_prefix, self, list) ==
    ports_loop(containers(object_prefix, self, list), 1)

\* the host ports a containers.run call publishes
host_ports(ports) == {ports.map[j][2] : j \in 1..Len(ports.map)}

names(list) == [j \in 1..Len(list) |-> list[j].name]

Return(method) == [op |-> "return", method |-> method]
\* an error that reaches the caller as another one
Raise_mut_masked(error) == [op |-> "raise", error |-> "Exception"]
Raise(error) == [op |-> "raise", error |-> error]
Call(method) == [op |-> "call", method |-> method]
List(list) == [op |-> "containers.list", result |-> names(list)]

\* the statement a returning _ensure_net_exists hands control to, and the
\* methods that return with it
return_to(c) ==
    CASE c = "run" -> "img_check" [] c = "_ensure_image_exists" -> "main_start"
      [] OTHER -> "net_start"
returns(c) ==
    IF c = "_ensure_image_exists"
    THEN <<Return("_ensure_net_exists"), Return("_ensure_image_exists")>>
    ELSE <<Return("_ensure_net_exists")>>

-----------------------------------------------------------------------------
(* The plans, images and containers the commands meet *)

Tool == <<"t", "o", "o", "l">>
ToolNet1 == Tool \o <<"_", "n", "e", "t", "_", "1">>
Web == <<"w", "e", "b">>

\* name and dockerfile are inspected by the methods, so they are sequences
\* of characters; <<>> is the empty dockerfile
RunNamed == ("name" :> Tool) @@ ("image" :> "img") @@ ("dockerfile" :> <<>>)

RunDocs ==
    {RunNamed,
     RunNamed @@ ("ports" :> IntVal(1)),
     RunNamed @@ ("ports" :> ListVal(<<MapVal(<<<<1, 2>>>>), MapVal(<<<<2, 1>>>>)>>)),
     RunNamed @@ ("ports" :> IntVal(1)) @@ ("detach" :> TRUE),
     RunNamed @@ ("tty" :> TRUE),
     ("dockerfile" :> <<"f", "r", "o", "m", " ", "a">>)
        @@ RunNamed @@ ("ports" :> MapVal(<<<<1, 2>>>>)),
     ("dockerfile" :> <<"r", "u", "n">>) @@ RunNamed,
     RunNamed @@ ("version" :> "edge"),
     ("name" :> ToolNet1) @@ RunNamed @@ ("ports" :> IntVal(0))}

\* the plans loader.get_plan(name) can return: loaded and valid
RunPlans ==
    {p \in {from_dict(Plan(<<"user", 1>>), d) : d \in RunDocs} :
        IF IsRaised(p) THEN FALSE ELSE p.valid}

InitialImages ==
    {{}, {net_container_name}, {net_container_name, <<"img", "latest">>},
     {net_container_name, <<"img", "latest">>, <<"img", "dwnlocal">>}}

\* the main container of plan p, and its proxy for a port, as the runtime lists them
MainOf(p) == [name |-> get_container_name(RunPrefix, p), owner |-> p, host_ports |-> {}]
ProxyOf(p, outside, inside) ==
    [name |-> get_net_container_name_with_ports(RunPrefix, p, outside, inside),
     owner |-> p, host_ports |-> {outside}]

InitialContainers ==
    {<<>>,
     <<MainOf(Web), ProxyOf(Web, 1, 1)>>,
     <<MainOf(ToolNet1), ProxyOf(ToolNet1, 0, 0)>>,
     <<MainOf(Tool), ProxyOf(Tool, 2, 1)>>,
     <<MainOf(Tool), ProxyOf(Tool, 2, 1), ProxyOf(Tool, 1, 2), MainOf(Web)>>}

\* the (outside, inside) arguments of stop_net
StopNetArgs == {<<2, 1>>, <<1, 2>>, <<0, 0>>}

-----------------------------------------------------------------------------
(* The commands *)

RunInit ==
    /\ LoaderIdle
    /\ NameIdle
    /\ CfgIdle
    /\ RaceIdle
    /\ AddIdle
    /\ r_plan \in RunPlans
    /\ cmd \in {"run", "stop", "stop_net", "ports"}
    /\ r_args \in IF cmd = "stop_net" THEN StopNetArgs ELSE {<<>>}
    /\ rpc = "cmd"
    /\ images \in InitialImages
    /\ network \in BOOLEAN
    /\ running \in InitialContainers
    /\ calls = <<>>
    /\ idx = 0
    /\ listed = <<>>
    /\ depth = 0
    /\ caller = "none"

\* the run command up to plan.container.run(): the already-running check
CmdRun ==
    /\ rpc = "cmd"
    /\ cmd = "run"
    /\ LET c == containers(RunPrefix, r_plan, running)
       IN  /\ listed' = c
           /\ calls' = Append(calls, List(running))
           /\ IF Len(c) > 0
              THEN /\ rpc' = "returned"
                   /\ UNCHANGED caller
              ELSE /\ rpc' = "net_check"
                   /\ caller' = "run"
    /\ UNCHANGED <<r_plan, cmd, r_args, images, network, running, idx, depth>>
    /\ UNCHANGED nonRunVars

\* the stop command up to plan.container.stop()
CmdStop ==
    /\ rpc = "cmd"
    /\ cmd = "stop"
    /\ calls' = Append(calls, List(running))
    /\ rpc' = "stop_list"
    /\ UNCHANGED <<r_plan, cmd, r_args, images, network, running, idx, listed, depth, caller>>
    /\ UNCHANGED nonRunVars

\* _ensure_net_exists: the try block
EnsureNetCheck ==
    /\ rpc = "net_check"
    /\ LET image_found == net_container_name \in images
           get_image == [op |-> "images.get", image |-> net_container_name,
                         result |-> IF image_found THEN "ok" ELSE "ImageNotFound"]
           get_net == [op |-> "networks.get", name |-> net_name,
                       result |-> IF network THEN "ok" ELSE "NotFound"]
       IN  IF ~image_found
           THEN /\ calls' = Append(calls, get_image)
                /\ rpc' = "net_build"
           ELSE IF ~network
           THEN /\ calls' = calls \o <<get_image, get_net>>
                /\ rpc' = "net_create"
           ELSE /\ calls' = calls \o <<get_image, get_net>> \o returns(caller)
                /\ rpc' = return_to(caller)
    /\ UNCHANGED <<r_plan, cmd, r_args, images, network, running, idx, listed, depth, caller>>
    /\ UNCHANGED nonRunVars

\* _ensure_net_exists: except ImageNotFound, up to the nested call
EnsureNetBuild ==
    /\ rpc = "net_build"
    /\ \E result \in {"built", "nothing", "BuildError"} :
          LET build == [op |-> "images.build", tag |-> net_container_name, result |-> result]
          IN  /\ images' = IF result = "built" THEN images \cup {net_container_name} ELSE images
              /\ IF result = "BuildError"
                 THEN /\ calls' = calls \o <<build, Raise("BuildError")>>
                      /\ rpc' = "raised"
                      /\ UNCHANGED depth
                 ELSE IF depth >= MaxRecursion
                 THEN /\ calls' = calls \o <<build, Raise("RecursionError")>>
                      /\ rpc' = "raised"
                      /\ UNCHANGED depth
                 ELSE /\ calls' = Append(calls, build)
                      /\ rpc' = "net_check"
                      /\ depth' = depth + 1
    /\ UNCHANGED <<r_plan, cmd, r_args, network, running, idx, listed, caller>>
    /\ UNCHANGED nonRunVars

\* _ensure_net_exists: except NotFound, up to the nested call.  A create for
\* a name another process has taken in the meantime is refused with the
\* APIError of a 409 response.
EnsureNetCreate ==
    /\ rpc = "net_create"
    /\ \E result \in {"created", "nothing", "APIError"} :
          /\ network => result = "APIError"
          /\ LET create == [op |-> "networks.create", name |-> net_name,
                            check_duplicate |-> TRUE, duplicate |-> network,
                            result |-> result]
             IN  /\ network' = (network \/ result = "created")
                 /\ IF result = "APIError"
                    THEN /\ calls' = calls \o <<create, Raise("APIError")>>
                         /\ rpc' = "raised"
                         /\ UNCHANGED depth
                    ELSE IF depth >= MaxRecursion
                    THEN /\ calls' = calls \o <<create, Raise("RecursionError")>>
                         /\ rpc' = "raised"
                         /\ UNCHANGED depth
                    ELSE /\ calls' = Append(calls, create)
                         /\ rpc' = "net_check"
                         /\ depth' = depth + 1
    /\ UNCHANGED <<r_plan, cmd, r_args, images, running, idx, listed, caller>>
    /\ UNCHANGED nonRunVars

\* another process creates the docker network while this command runs
OtherCreatesNetwork ==
    /\ rpc \notin {"cmd", "returned", "raised"}
    /\ ~network
    /\ network' = TRUE
    /\ UNCHANGED <<r_plan, cmd, r_args, rpc, images, running, calls, idx, listed, depth, caller>>
    /\ UNCHANGED nonRunVars

\* _ensure_image_exists up to the build
EnsureImageCheck ==
    /\ rpc = "img_check"
    /\ IF ~has_dockerfile(r_plan)
       THEN /\ calls' = Append(calls, Return("_ensure_image_exists"))
            /\ rpc' = "main_start"
       ELSE LET found == image_version(r_plan) \in images
                get == [op |-> "images.get", image |-> image_version(r_plan),
                        result |-> IF found THEN "ok" ELSE "ImageNotFound"]
            IN  IF found
                THEN /\ calls' = calls \o <<get, Return("_ensure_image_exists")>>
                     /\ rpc' = "main_start"
                ELSE /\ calls' = Append(calls, get)
                     /\ rpc' = "img_build"
    /\ UNCHANGED <<r_plan, cmd, r_args, images, network, running, idx, listed, depth, caller>>
    /\ UNCHANGED nonRunVars

\* _ensure_image_exists: except ImageNotFound, up to its call of _ensure_net_exists
EnsureImageBuild ==
    /\ rpc = "img_build"
    /\ \E result \in {"built", "nothing", "BuildError"} :
          LET build == [op |-> "images.build", tag |-> image_version(r_plan), result |-> result]
          IN  /\ images' = IF result = "built" THEN images \cup {image_version(r_plan)} ELSE images
              /\ IF result = "BuildError"
                 THEN /\ calls' = calls \o <<build, Raise("BuildError")>>
                      /\ rpc' = "raised"
                      /\ UNCHANGED <<caller, depth>>
                 ELSE /\ calls' = Append(calls, build)
                      /\ rpc' = "net_check"
                      /\ caller' = "_ensure_image_exists"
                      /\ depth' = 0
    /\ UNCHANGED <<r_plan, cmd, r_args, network, running, idx, listed>>
    /\ UNCHANGED nonRunVars

\* what the runtime makes of a containers.run call: the name and the host
\* ports must be free
start_result(call, list) ==
    IF \E j \in 1..Len(list) :
          \/ list[j].name = call.name
          \/ list[j].host_ports \cap host_ports(call.ports) # {}
    THEN "APIError" ELSE "ok"

\* Container.run: the start of the main container
MainStart ==
    /\ rpc = "main_start"
    /\ \E pull \in {"ok", "ImageNotFound"} :
          /\ image_version(r_plan) \in images => pull = "ok"
          /\ LET call == run_call(RunPrefix, r_plan)
                 result == IF pull # "ok" THEN pull ELSE start_result(call, running)
             IN  IF result # "ok"
                 THEN /\ calls' = calls \o <<call @@ [result |-> result], Raise(result)>>
                      /\ rpc' = "raised"
                      /\ UNCHANGED <<images, running, idx, caller, depth>>
                 ELSE /\ images' = images \cup {image_version(r_plan)}
                      /\ running' = Append(running,
                            [name |-> call.name, owner |-> r_plan.name,
                             host_ports |-> host_ports(call.ports)])
                      /\ IF Len(r_plan.exposed_ports) = 0
                         THEN /\ calls' = calls \o <<call @@ [result |-> "ok"], Return("run")>>
                              /\ rpc' = "after_run"
                              /\ UNCHANGED <<idx, caller, depth>>
                         ELSE /\ calls' = Append(calls, call @@ [result |-> "ok"])
                              /\ rpc' = "net_check"
                              /\ idx' = 1
                              /\ caller' = "run_net"
                              /\ depth' = 0
    /\ UNCHANGED <<r_plan, cmd, r_args, network, listed>>
    /\ UNCHANGED nonRunVars

\* Container.run_net after its _ensure_net_exists: the start of one proxy
NetStart ==
    /\ rpc = "net_start"
    /\ LET port_map == run_port_map(r_plan.exposed_ports, idx)
           inside == port_map[1]
           outside == port_map[2]
           call == run_net_call(RunPrefix, r_plan, outside, inside)
           result == start_result(call, running)
       IN  IF result # "ok"
           THEN /\ calls' = calls \o <<call @@ [result |-> result], Raise(result)>>
                /\ rpc' = "raised"
                /\ UNCHANGED <<running, idx, depth>>
           ELSE /\ running' = Append(running,
                      [name |-> call.name, owner |-> r_plan.name,
                       host_ports |-> host_ports(call.ports)])
                /\ IF idx = Len(r_plan.exposed_ports)
                   THEN /\ calls' = calls \o <<call @@ [result |-> "ok"], Return("run")>>
                        /\ rpc' = "after_run"
                        /\ UNCHANGED <<idx, depth>>
                   ELSE /\ calls' = Append(calls, call @@ [result |-> "ok"])
                        /\ rpc' = "net_check"
                        /\ idx' = idx + 1
                        /\ depth' = 0
    /\ UNCHANGED <<r_plan, cmd, r_args, images, network, listed, caller>>
    /\ UNCHANGED nonRunVars

\* the run command after plan.container.run(): detach, tty or log streaming
AfterRun ==
    /\ rpc = "after_run"
    /\ rpc' = IF r_plan.detach THEN "returned"
              ELSE IF r_plan.tty THEN "returned"
              ELSE "attach"
    /\ UNCHANGED <<r_plan, cmd, r_args, images, network, running, calls, idx, listed, depth, caller>>
    /\ UNCHANGED nonRunVars

\* the run command: service.attach and the log stream, which ends when the
\* main container is gone
Attach ==
    /\ rpc = "attach"
    /\ \E result \in {"stream_end", "NotFound", "APIError"} :
          /\ calls' = calls \o
                (<<[op |-> "attach", result |-> result]>>
                 \o IF attach_except(result) = "raise" THEN <<Raise(result)>> ELSE <<>>)
          /\ running' = IF result = "APIError" THEN running
                        ELSE SelectSeq(running, LAMBDA c :
                                c.name # get_container_name(RunPrefix, r_plan.name))
          /\ rpc' = CASE attach_except(result) = "stop" -> "stop_list"
                      [] attach_except(result) = "return" -> "returned"
                      [] OTHER -> "raised"
    /\ UNCHANGED <<r_plan, cmd, r_args, images, network, idx, listed, depth, caller>>
    /\ UNCHANGED nonRunVars

\* Container.stop: self.containers()
StopList ==
    /\ rpc = "stop_list"
    /\ LET c == containers(RunPrefix, r_plan, running)
       IN  /\ listed' = c
           /\ idx' = 1
           /\ IF Len(c) = 0
              THEN /\ calls' = calls \o <<Call("stop"), List(running), Return("stop")>>
                   /\ rpc' = "returned"
              ELSE /\ calls' = calls \o <<Call("stop"), List(running)>>
                   /\ rpc' = "stop_loop"
    /\ UNCHANGED <<r_plan, cmd, r_args, images, network, running, depth, caller>>
    /\ UNCHANGED nonRunVars

\* Container.stop: one iteration of the for loop
StopLoop ==
    /\ rpc = "stop_loop"
    /\ \E result \in {"ok", "NotFound", "Exception"} :
          LET container == listed[idx]
              stop == [op |-> "container.stop", name |-> container.name,
                       owner |-> container.owner, result |-> result]
          IN  /\ running' = IF result = "Exception" THEN running
                            ELSE SelectSeq(running, LAMBDA c : c.name # container.name)
              /\ IF stop_except(result) = "raise"
                 THEN /\ calls' = calls \o <<stop, Raise(result)>>
                      /\ rpc' = "raised"
                      /\ UNCHANGED idx
                 ELSE IF idx = Len(listed)
                 THEN /\ calls' = calls \o <<stop, Return("stop")>>
                      /\ rpc' = "returned"
                      /\ UNCHANGED idx
                 ELSE /\ calls' = Append(calls, stop)
                      /\ rpc' = "stop_loop"
                      /\ idx' = idx + 1
    /\ UNCHANGED <<r_plan, cmd, r_args, images, network, listed, depth, caller>>
    /\ UNCHANGED nonRunVars

\* Container.stop_net: self.containers()
StopNetList ==
    /\ rpc = "cmd"
    /\ cmd = "stop_net"
    /\ LET c == containers(RunPrefix, r_plan, running)
       IN  /\ listed' = c
           /\ idx' = 1
           /\ IF Len(c) = 0
              THEN /\ calls' = calls \o <<Call("stop_net"), List(running), Return("stop_net")>>
                   /\ rpc' = "returned"
              ELSE /\ calls' = calls \o <<Call("stop_net"), List(running)>>
                   /\ rpc' = "stop_net_loop"
    /\ UNCHANGED <<r_plan, cmd, r_args, images, network, running, depth, caller>>
    /\ UNCHANGED nonRunVars

\* Container.stop_net: one iteration of the for loop; container.stop() is
\* not in a try block
StopNetLoop ==
    /\ rpc = "stop_net_loop"
    /\ \E result \in {"ok", "NotFound", "Exception"} :
          LET container == listed[idx]
              selected == stop_net_selects(RunPrefix, r_plan, container.name,
                                           r_args[1], r_args[2])
              stop == [op |-> "container.stop", name |-> container.name,
                       owner |-> container.owner, result |-> result]
              last == IF idx = Len(listed) THEN <<Return("stop_net")>> ELSE <<>>
          IN  /\ ~selected => result = "ok"
              /\ running' = IF ~selected \/ result = "Exception" THEN running
                            ELSE SelectSeq(running, LAMBDA c : c.name # container.name)
              /\ IF selected /\ result # "ok"
                 THEN /\ calls' = calls \o <<stop, Raise(result)>>
                      /\ rpc' = "raised"
                      /\ UNCHANGED idx
                 ELSE /\ calls' = calls \o (IF selected THEN <<stop>> ELSE <<>>) \o last
                      /\ rpc' = IF idx = Len(listed) THEN "returned" ELSE "stop_net_loop"
                      /\ idx' = IF idx = Len(listed) THEN idx ELSE idx + 1
    /\ UNCHANGED <<r_plan, cmd, r_args, images, network, listed, depth, caller>>
    /\ UNCHANGED nonRunVars

\* Container.ports
CmdPorts ==
    /\ rpc = "cmd"
    /\ cmd = "ports"
    /\ listed' = containers(RunPrefix, r_plan, running)
    /\ calls' = calls \o <<List(running),
                           [op |-> "return", method |-> "ports",
                            value |-> Container_ports(RunPrefix, r_plan, running)]>>
    /\ rpc' = "returned"
    /\ UNCHANGED <<r_plan, cmd, r_args, images, network, running, idx, depth, caller>>
    /\ UNCHANGED nonRunVars

RunNext ==
    \/ CmdRun \/ CmdStop \/ StopNetList \/ StopNetLoop \/ CmdPorts
    \/ EnsureNetCheck \/ EnsureNetBuild \/ EnsureNetCreate
    \/ EnsureImageCheck \/ EnsureImageBuild
    \/ MainStart \/ NetStart
    \/ AfterRun \/ Attach
    \/ StopList \/ StopLoop
    \/ OtherCreatesNetwork

RunSpec == RunInit /\ [][RunNext]_vars

-----------------------------------------------------------------------------
(* Properties of the commands *)

Starts == SelectSeq(calls, LAMBDA c : c.op = "containers.run")
Stops == SelectSeq(calls, LAMBDA c : c.op = "container.stop")
Happened(entry) == \E n \in 1..Len(calls) : calls[n] = entry

\* <prefix>_<planName> and <prefix>_<planName>_net_<outside>_<inside>
MainName == RunPrefix \o <<"_">> \o r_plan.name
ProxyName(outside, inside) ==
    MainName \o <<"_", "n", "e", "t", "_">> \o str_int(outside) \o <<"_">> \o str_int(inside)

\* C13: containers() of plan A never returns, and stop() of A never stops, a
\* container that was started for a plan B of another name.
C13_NoForeignContainers ==
    /\ \A j \in 1..Len(listed) : listed[j].owner = r_plan.name
    /\ \A n \in 1..Len(Stops) : Stops[n].owner = r_plan.name

\* C14: a run() that returned issued exactly one start of the main container,
\* named <prefix>_<planName>, and for each pair (inside, outside) of
\* exposed_ports exactly one proxy start named
\* <prefix>_<planName>_net_<outside>_<inside>, with REMOTE_HOST the main
\* container name, REMOTE_PORT inside, LOCAL_PORT outside, publishing host
\* port outside to container port outside; and no other start.
C14_RunStartsMainAndProxies ==
    Happened(Return("run")) =>
        /\ Len(Starts) = 1 + Len(r_plan.exposed_ports)
        /\ Cardinality({n \in 1..Len(Starts) : Starts[n].name = MainName}) = 1
        /\ \A j \in 1..Len(r_plan.exposed_ports) :
              LET inside == r_plan.exposed_ports[j][1]
                  outside == r_plan.exposed_ports[j][2]
              IN  Cardinality({n \in 1..Len(Starts) :
                      /\ Starts[n].name = ProxyName(outside, inside)
                      /\ Starts[n].environment =
                            [REMOTE_HOST |-> MainName, REMOTE_PORT |-> inside,
                             LOCAL_PORT |-> outside]
                      /\ Starts[n].ports = MapVal(<<<<outside, outside>>>>)}) = 1

\* C14 happens: run() returned for a plan with two pairs whose inside and
\* outside ports differ.
C14_Witness ==
    /\ Happened(Return("run"))
    /\ Len(r_plan.exposed_ports) = 2
    /\ \A j \in 1..2 : r_plan.exposed_ports[j][1] # r_plan.exposed_ports[j][2]
    /\ Len(Starts) = 3

\* C15: once stop() is called it never raises, and when it has returned it
\* has tried to stop every container containers() returned, in order,
\* whatever the earlier stop calls raised.
C15_StopBestEffort ==
    Happened(Call("stop")) =>
        /\ rpc # "raised"
        /\ Len(Stops) <= Len(listed)
        /\ \A n \in 1..Len(Stops) : Stops[n].name = listed[n].name
        /\ rpc = "returned" => Len(Stops) = Len(listed)

\* C15 happens: stop() returned after three stop calls of which the first
\* raised another error and the second raised NotFound.
C15_Witness ==
    /\ rpc = "returned"
    /\ Happened(Return("stop"))
    /\ Len(listed) >= 3
    /\ Len(Stops) = Len(listed)
    /\ Stops[1].result = "Exception"
    /\ Stops[2].result = "NotFound"

\* the index after s at which the running _ensure_net_exists has returned
NetEnd(s) ==
    LET after == {n \in (s + 1)..Len(calls) : calls[n] = Return("_ensure_net_exists")}
    IN  IF after = {} THEN Len(calls) + 1
        ELSE CHOOSE n \in after : \A o \in after : n <= o

\* a build of the proxy image or a create of the network that returned
\* without error and left the resource missing
Silent(s) ==
    /\ calls[s].result = "nothing"
    /\ \/ calls[s].op = "networks.create"
       \/ calls[s].op = "images.build" /\ calls[s].tag = net_container_name

\* C16: after the proxy image build or the network creation returned without
\* error and without effect, _ensure_net_exists makes one more existence
\* check and no further one.
C16_SingleRetry ==
    \A s \in 1..Len(calls) :
        (calls[s].op \in {"images.build", "networks.create"} /\ Silent(s)) =>
            Cardinality({n \in (s + 1)..(NetEnd(s) - 1) :
                /\ calls[n].op = "images.get"
                /\ calls[n].image = net_container_name}) <= 1

\* C17: the plan from_dict produced has an empty ports field, every start of
\* the main container carries an empty port-publish map, and the running
\* main container holds no host port.
C17_MainPublishesNoPorts ==
    /\ r_plan.ports = MapVal(<<>>)
    /\ \A n \in 1..Len(Starts) :
          Starts[n].name = MainName => Starts[n].ports = MapVal(<<>>)
    /\ \A j \in 1..Len(running) :
          running[j].name = MainName => running[j].host_ports = {}

\* C17 happens: the main container of a plan that exposes ports was started
\* and a proxy of it holds a host port.
C17_Witness ==
    /\ Len(r_plan.exposed_ports) > 0
    /\ \E n \in 1..Len(Starts) : Starts[n].name = MainName /\ Starts[n].result = "ok"
    /\ \E j \in 1..Len(running) :
          running[j].owner = r_plan.name /\ running[j].host_ports # {}
             /\ running[j].name # MainName
    /\ \E j \in 1..Len(running) : running[j].name = MainName

\* C18: in a run command with detach and tty false, once the log stream has
\* ended or attach has raised NotFound the command does not fail, and when
\* it has returned stop() was called after the attach and every proxy the
\* run started got a stop call.
C18_StopAfterLogStream ==
    \A a \in 1..Len(calls) :
        (/\ cmd = "run" /\ ~r_plan.detach /\ ~r_plan.tty
         /\ calls[a].op = "attach"
         /\ calls[a].result \in {"stream_end", "NotFound"}) =>
            /\ rpc # "raised"
            /\ rpc = "returned" =>
                  /\ \E s \in (a + 1)..Len(calls) : calls[s] = Call("stop")
                  /\ \A n \in 1..Len(Starts) :
                        (Starts[n].name # MainName /\ Starts[n].result = "ok") =>
                            \E t \in 1..Len(Stops) : Stops[t].name = Starts[n].name

\* C18 happens: attach raised NotFound in a run of a plan with two proxies,
\* and the command returned after stop calls for both.
C18_Witness ==
    /\ cmd = "run" /\ rpc = "returned"
    /\ Happened([op |-> "attach", result |-> "NotFound"])
    /\ Len(r_plan.exposed_ports) = 2
    /\ Len(Stops) = 2

\* C20: in the calls of one run(), _ensure_net_exists and then
\* _ensure_image_exists have returned before the start of the main container
\* is issued, that start has succeeded before any proxy start is issued, and
\* the proxy starts follow the order of exposed_ports.
C20_RunCallsOrdered ==
    \A n \in 1..Len(calls) :
        calls[n].op = "containers.run" =>
            IF calls[n].name = MainName
            THEN \E a, b \in 1..(n - 1) :
                    /\ a < b
                    /\ calls[a] = Return("_ensure_net_exists")
                    /\ calls[b] = Return("_ensure_image_exists")
            ELSE /\ \E m \in 1..(n - 1) :
                       /\ calls[m].op = "containers.run"
                       /\ calls[m].name = MainName
                       /\ calls[m].result = "ok"
                 /\ \E j \in 1..Len(r_plan.exposed_ports) :
                       /\ calls[n].name =
                             ProxyName(r_plan.exposed_ports[j][2], r_plan.exposed_ports[j][1])
                       /\ j = Cardinality({o \in 1..n :
                                calls[o].op = "containers.run"}) - 1

\* C20 happens: run() returned after the main container and two proxies with
\* different names were started.
C20_Witness ==
    /\ Happened(Return("run"))
    /\ Len(Starts) = 3
    /\ Starts[2].name # Starts[3].name
    /\ Starts[1].name = MainName

\* C21: when a build, a network create or a container start of run() fails,
\* the error reaches the caller of the command, it is the last runtime call
\* (no later start), no stop is issued, and every container this run()
\* started before it is still running.
C21_FailureAbortsWithoutCleanup ==
    \A n \in 1..Len(calls) :
        (/\ calls[n].op \in {"images.build", "networks.create", "containers.run"}
         /\ calls[n].result \in {"BuildError", "APIError", "ImageNotFound"}) =>
            /\ rpc = "raised"
            /\ Len(calls) = n + 1
            /\ calls[n + 1] = [op |-> "raise", error |-> calls[n].result]
            /\ Len(Stops) = 0
            /\ \A s \in 1..Len(Starts) :
                  Starts[s].result = "ok" =>
                      \E j \in 1..Len(running) :
                          /\ running[j].name = Starts[s].name
                          /\ running[j].owner = r_plan.name

\* C21 happens: the start of the second proxy failed after the main container
\* and the first proxy were started, and both are still running.
C21_Witness ==
    /\ rpc = "raised"
    /\ Len(Starts) = 3
    /\ Starts[1].result = "ok" /\ Starts[2].result = "ok"
    /\ Starts[3].result = "APIError"
    /\ Cardinality({j \in 1..Len(running) : running[j].owner = r_plan.name}) = 2

\* a container name containers() of the plan keeps
OfPlan(name) ==
    \/ name = MainName
    \/ startswith(name, MainName \o <<"_", "n", "e", "t", "_">>)

\* C24: a run command whose containers() check found a container of the
\* plan has returned after that one list call: no build, no network create
\* and no container start was issued.
C24_AlreadyRunningNoCalls ==
    (/\ cmd = "run"
     /\ Len(calls) >= 1
     /\ \E j \in 1..Len(calls[1].result) : OfPlan(calls[1].result[j])) =>
        /\ rpc = "returned"
        /\ Len(calls) = 1
        /\ calls[1].op = "containers.list"

\* C24 happens: the run command returned at the check with a container of
\* the plan running, images missing and the network missing.
C24_Witness ==
    /\ cmd = "run" /\ rpc = "returned"
    /\ Len(calls) = 1
    /\ \E j \in 1..Len(running) : running[j].owner = r_plan.name
    /\ images = {} /\ ~network

\* the plan carries a dockerfile that holds FROM in some case
ValidDockerfile ==
    \E a \in 1..(Len(r_plan.dockerfile) - 3) :
        /\ r_plan.dockerfile[a] \in {"f", "F"}
        /\ r_plan.dockerfile[a + 1] \in {"r", "R"}
        /\ r_plan.dockerfile[a + 2] \in {"o", "O"}
        /\ r_plan.dockerfile[a + 3] \in {"m", "M"}

\* image:dwnlocal with a valid inline dockerfile, image:version otherwise
EffectiveImage ==
    <<r_plan.image, IF ValidDockerfile THEN "dwnlocal" ELSE r_plan.version>>

\* the builds issued for an image other than the proxy image
PlanBuilds ==
    SelectSeq(calls, LAMBDA c :
        IF c.op = "images.build" THEN c.tag # net_container_name ELSE FALSE)

\* C27: the main container is started from image:dwnlocal exactly when the
\* plan carries a valid inline dockerfile and from image:version otherwise;
\* a plan image is built only with a valid dockerfile, tagged image:dwnlocal,
\* right after that tag was not found, and once _ensure_image_exists has
\* returned it built once if the tag was not found and never otherwise.
C27_ImageBuiltWhenMissing ==
    /\ \A s \in 1..Len(Starts) :
          Starts[s].name = MainName => Starts[s].image = EffectiveImage
    /\ \A n \in 1..Len(calls) :
          (calls[n].op = "images.build" /\ calls[n].tag # net_container_name) =>
              /\ ValidDockerfile
              /\ calls[n].tag = <<r_plan.image, "dwnlocal">>
              /\ calls[n - 1] = [op |-> "images.get", image |-> calls[n].tag,
                                 result |-> "ImageNotFound"]
    /\ Happened(Return("_ensure_image_exists")) =>
          Len(PlanBuilds) =
              IF /\ ValidDockerfile
                 /\ Happened([op |-> "images.get", image |-> <<r_plan.image, "dwnlocal">>,
                              result |-> "ImageNotFound"])
              THEN 1 ELSE 0

\* C27 happens: the tag image:dwnlocal was not found, the image was built and
\* the main container was started from it.
C27_Witness ==
    /\ Len(PlanBuilds) = 1
    /\ PlanBuilds[1].tag = <<"img", "dwnlocal">>
    /\ PlanBuilds[1].result = "built"
    /\ \E s \in 1..Len(Starts) :
          /\ Starts[s].name = MainName
          /\ Starts[s].image = <<"img", "dwnlocal">>
          /\ Starts[s].result = "ok"

\* C22: when the network create is refused because another process created
\* the network after this process's existence check, _ensure_net_exists does
\* not fail: no error is raised out of it.
C22_CreateRaceTolerated ==
    \A n \in 1..Len(calls) :
        (calls[n].op = "networks.create" /\ calls[n].duplicate) =>
            /\ rpc # "raised"
            /\ ~Happened(Raise("APIError"))

-----------------------------------------------------------------------------
(* Two run commands for the same plan at the same time.  Each is followed   *)
(* from its containers() check to the start of the main container; the      *)
(* provisioning in between touches no container and is one step.            *)

Commands == {1, 2}

\* a run() that looks at containers() again before it starts the main container
start_guard_mut_recheck(object_prefix, self, list) ==
    Len(containers(object_prefix, self, list)) = 0

\* what Container.run requires of the running containers before it calls
\* containers.run: nothing
start_guard(object_prefix, self, list) == TRUE

RaceInit ==
    /\ LoaderIdle
    /\ NameIdle
    /\ CfgIdle
    /\ RunIdle
    /\ AddIdle
    /\ q_plan \in RunPlans
    /\ q_pc = [p \in Commands |-> "cmd"]
    /\ q_seen = [p \in Commands |-> <<>>]
    /\ q_running \in InitialContainers
    /\ q_calls = <<>>

\* the run command: the already-running check
RaceCheck(p) ==
    /\ q_pc[p] = "cmd"
    /\ LET c == containers(RunPrefix, q_plan, q_running)
       IN  /\ q_seen' = [q_seen EXCEPT ![p] = names(c)]
           /\ q_pc' = [q_pc EXCEPT ![p] = IF Len(c) > 0 THEN "returned" ELSE "ensure"]
    /\ UNCHANGED <<q_plan, q_running, q_calls>>
    /\ UNCHANGED nonRaceVars

\* Container.run: _ensure_net_exists and _ensure_image_exists, which return
\* or raise
RaceEnsure(p) ==
    /\ q_pc[p] = "ensure"
    /\ \E next \in {"main_start", "raised"} : q_pc' = [q_pc EXCEPT ![p] = next]
    /\ UNCHANGED <<q_plan, q_seen, q_running, q_calls>>
    /\ UNCHANGED nonRaceVars

\* Container.run: the start of the main container
RaceStart(p) ==
    /\ q_pc[p] = "main_start"
    /\ start_guard(RunPrefix, q_plan, q_running)
    /\ LET call == run_call(RunPrefix, q_plan)
           result == start_result(call, q_running)
       IN  /\ q_calls' = Append(q_calls, [by |-> p, name |-> call.name, result |-> result])
           /\ IF result = "ok"
              THEN /\ q_running' = Append(q_running,
                         [name |-> call.name, owner |-> q_plan.name,
                          host_ports |-> host_ports(call.ports)])
                   /\ q_pc' = [q_pc EXCEPT ![p] = "started"]
              ELSE /\ q_running' = q_running
                   /\ q_pc' = [q_pc EXCEPT ![p] = "raised"]
    /\ UNCHANGED <<q_plan, q_seen>>
    /\ UNCHANGED nonRaceVars

\* the main container exits and the runtime removes it
RaceExit ==
    /\ \E j \in 1..Len(q_running) :
          /\ q_running[j].name = get_container_name(RunPrefix, q_plan.name)
          /\ q_running' = SelectSeq(q_running, LAMBDA c : c.name # q_running[j].name)
    /\ \E p \in Commands : q_pc[p] = "started"
    /\ UNCHANGED <<q_plan, q_pc, q_seen, q_calls>>
    /\ UNCHANGED nonRaceVars

RaceNext ==
    \/ \E p \in Commands : RaceCheck(p)
    \/ \E p \in Commands : RaceEnsure(p)
    \/ \E p \in Commands : RaceStart(p)
    \/ RaceExit

RaceSpec == RaceInit /\ [][RaceNext]_vars

\* C23: nothing stands between the containers() check and the start: a
\* command that saw containers() empty and has provisioned can issue the
\* start of the main container whatever the other command has done since,
\* and the start it issues is for the main container of the plan.
C23_NoExclusivity ==
    /\ \A p \in Commands :
          q_pc[p] = "main_start" => (q_seen[p] = <<>> /\ ENABLED RaceStart(p))
    /\ \A n \in 1..Len(q_calls) :
          q_calls[n].name = RunPrefix \o <<"_">> \o q_plan.name

\* C23 happens: both commands saw containers() empty and both issued a start
\* for the main container of the plan.
C23_Witness ==
    /\ \A p \in Commands : q_seen[p] = <<>> /\ q_pc[p] \in {"started", "raised"}
    /\ \A p \in Commands : \E n \in 1..Len(q_calls) : q_calls[n].by = p
    /\ Len(q_calls) = 2
    /\ q_calls[1].name = q_calls[2].name

\* C25: stop_net(outside, inside) issues a stop call only for the container
\* named <prefix>_<planName>_net_<outside>_<inside>, at most once; once it
\* has returned it issued one for every such container containers() listed;
\* the main container and the other proxies get no stop call and keep
\* running.
C25_StopNetOnlyThatProxy ==
    cmd = "stop_net" =>
        LET target == ProxyName(r_args[1], r_args[2])
        IN  /\ \A n \in 1..Len(Stops) : Stops[n].name = target
            /\ Len(Stops) <= 1
            /\ rpc = "returned" =>
                  Len(Stops) = Cardinality({j \in 1..Len(listed) : listed[j].name = target})
            /\ \A j \in 1..Len(listed) :
                  listed[j].name # target =>
                      \E o \in 1..Len(running) : running[o] = listed[j]

\* C25 happens: stop_net returned after one stop call with the main container
\* and another proxy of the plan listed and still running.
C25_Witness ==
    /\ cmd = "stop_net" /\ rpc = "returned"
    /\ Len(Stops) = 1
    /\ Stops[1].result = "ok"
    /\ \E j \in 1..Len(running) : running[j].name = MainName
    /\ \E j \in 1..Len(running) :
          /\ running[j].owner = r_plan.name
          /\ running[j].name # MainName
          /\ running[j].name # Stops[1].name

\* the running proxy containers of the plan
Proxies ==
    {j \in 1..Len(running) :
        running[j].owner = r_plan.name /\ running[j].name # MainName}

\* C26: ports() returns one (outside, inside) entry for each running proxy
\* container of the plan, the one its name ends in, and no other entry.
C26_PortsOnePerProxy ==
    (cmd = "ports" /\ rpc = "returned") =>
        LET value == calls[Len(calls)].value
        IN  /\ Len(value) = Cardinality(Proxies)
            /\ \A j \in Proxies :
                  \E n \in 1..Len(value) :
                      running[j].name =
                          MainName \o <<"_", "n", "e", "t", "_">>
                              \o value[n][1] \o <<"_">> \o value[n][2]

\* C28: for a plan file all of whose volumes carry a bind target, the loaded
\* plan's volumes hold, for every authored host key, an entry under the
\* normalised form of that key with the authored descriptor.
C28_EveryVolumeKept ==
    \A j \in 1..Len(plans) :
        LET d == Raw(j)
        IN  ("volumes" \in DOMAIN d
             /\ \A n \in 1..Len(d.volumes) : "bind" \in DOMAIN d.volumes[n][2])
                => \A n \in 1..Len(d.volumes) :
                      /\ dict_has(plans[j].volumes, normalise(d.volumes[n][1]))
                      /\ dict_get(plans[j].volumes, normalise(d.volumes[n][1]))
                            = d.volumes[n][2]

-----------------------------------------------------------------------------
(* Plan.add_commands.  A command string is StrVal of its characters, a      *)
(* command list is ListVal of its tokens, a token the sequence of its       *)
(* characters.                                                               *)

RECURSIVE join(_, _)
\* sep.join(c)
join(sep, c) ==
    IF Len(c) = 0 THEN <<>>
    ELSE IF Len(c) = 1 THEN c[1]
    ELSE c[1] \o sep \o join(sep, Tail(c))

\* Plan.add_commands: self afterwards, or the exception of list + str and
\* of None + str
add_commands(self, c) ==
    IF "str" \in DOMAIN self.command
    THEN [self EXCEPT !.command = StrVal(self.command.str \o <<" ">> \o join(<<" ">>, c))]
    ELSE Raised("TypeError")

Ls == <<"l", "s">>
DashA == <<"-", "a">>
Etc == <<"/", "e", "t", "c">>

CommandVals ==
    {StrVal(<<>>), StrVal(Ls), StrVal(Ls \o <<" ">> \o DashA),
     ListVal(<<>>), ListVal(<<Ls>>), ListVal(<<Ls, DashA>>), Null}

AddDocs ==
    {Named @@ ("command" :> v) @@ po @@ tt :
        v \in CommandVals,
        po \in Opt("ports", {IntVal(1)}),
        tt \in Opt("tty", {TRUE})}

ExtraArgs == {<<>>, <<DashA>>, <<DashA, Etc>>, <<Etc, DashA>>}

AddInit ==
    /\ LoaderIdle
    /\ NameIdle
    /\ CfgIdle
    /\ RunIdle
    /\ RaceIdle
    /\ a_plan \in {from_dict(Plan(<<"user", 1>>), d) : d \in AddDocs}
    /\ a_extra \in ExtraArgs
    /\ a_result = <<>>
    /\ apc = "args"

\* plan.add_commands(extra_args)
AddCommands ==
    /\ apc = "args"
    /\ a_result' = add_commands(a_plan, a_extra)
    /\ apc' = "done"
    /\ UNCHANGED <<a_plan, a_extra>>
    /\ UNCHANGED nonAddVars

AddNext == AddCommands

AddSpec == AddInit /\ [][AddNext]_vars

\* the tokens of a command: of a string its words, of a list its elements
TokensOf(command) ==
    IF "str" \in DOMAIN command
    THEN SelectSeq(split(command.str, " "), LAMBDA t : Len(t) > 0)
    ELSE command.list

\* C30: for a plan whose command is a string or a list of tokens,
\* add_commands(extra) succeeds, the command afterwards has the tokens of the
\* command before followed by the extra tokens in order, and no other field
\* of the plan has changed.
C30_AddCommandsAppends ==
    (apc = "done" /\ ("str" \in DOMAIN a_plan.command \/ "list" \in DOMAIN a_plan.command)) =>
        /\ ~IsRaised(a_result)
        /\ TokensOf(a_result.command) = TokensOf(a_plan.command) \o a_extra
        /\ a_result = [a_plan EXCEPT !.command = a_result.command]

-----------------------------------------------------------------------------
(* The commands run, stop and network add from the loading of the plan      *)
(* files on: Loader(), loader.get_plan(name), then the command.             *)

CliDocs ==
    [ok |-> RunNamed @@ ("ports" :> IntVal(1)),
     twice |-> RunNamed @@ ("ports" :> ListVal(<<IntVal(1), IntVal(1)>>)),
     off |-> RunNamed @@ ("valid" :> FALSE),
     built |-> ("dockerfile" :> <<"f", "r", "o", "m", " ", "a">>) @@ RunNamed,
     web |-> ("name" :> Web) @@ RunNamed]

\* <<dist plan files, user plan files>>
CliDeployments ==
    {<<<<>>, <<CliDocs.ok>>>>,
     <<<<>>, <<CliDocs.twice>>>>,
     <<<<CliDocs.web>>, <<CliDocs.off>>>>,
     <<<<CliDocs.twice>>, <<CliDocs.built>>>>,
     <<<<CliDocs.off>>, <<CliDocs.twice, CliDocs.web>>>>,
     <<<<CliDocs.ok>>, <<CliDocs.off>>>>}

CliInit ==
    /\ NameIdle
    /\ CfgIdle
    /\ RaceIdle
    /\ AddIdle
    /\ \E dep \in CliDeployments : dist_files = dep[1] /\ user_files = dep[2]
    /\ plans = <<>>
    /\ pc = "load_dist_plans"
    /\ i = 1
    /\ ret = [called |-> FALSE]
    /\ r_plan = <<>>
    /\ cmd \in {"run", "stop", "add"}
    /\ r_args \in [name : {Tool, Web}, outside : {1}, inside : {1, 2}]
    /\ rpc = "load"
    /\ images \in {{}, {net_container_name, <<"img", "latest">>}}
    /\ network \in BOOLEAN
    /\ running \in {<<>>, <<MainOf(Tool)>>}
    /\ calls = <<>>
    /\ idx = 0
    /\ listed = <<>>
    /\ depth = 0
    /\ caller = "none"

\* if not (plan := loader.get_plan(name)): error, return
CliGetPlan ==
    /\ pc = "done"
    /\ rpc = "load"
    /\ LET found == get_plan(plans, r_args.name, TRUE)
       IN  IF found = 0
           THEN /\ rpc' = "not_found"
                /\ UNCHANGED r_plan
           ELSE /\ rpc' = "cmd"
                /\ r_plan' = plans[found]
    /\ UNCHANGED <<cmd, r_args, images, network, running, calls, idx, listed, depth, caller>>
    /\ UNCHANGED nonRunVars

\* the network add command after get_plan: the start of one proxy, with no
\* provisioning before it
NetAdd ==
    /\ rpc = "cmd"
    /\ cmd = "add"
    /\ LET opts == [run_options(r_plan) EXCEPT !.name = object_name(RunPrefix, r_plan.name)]
           call == [op |-> "containers.run", image |-> net_container_name, detach |-> TRUE,
                    environment |-> [REMOTE_HOST |-> opts.name,
                                     REMOTE_PORT |-> r_args.inside,
                                     LOCAL_PORT |-> r_args.outside],
                    stderr |-> TRUE, stdout |-> TRUE, remove |-> TRUE,
                    network |-> net_name,
                    ports |-> MapVal(<<<<r_args.outside, r_args.outside>>>>),
                    name |-> opts.name \o <<"_", "n", "e", "t", "_">>
                                \o str_int(r_args.outside) \o <<"_">> \o str_int(r_args.inside)]
           result == IF net_container_name \notin images THEN "ImageNotFound"
                     ELSE IF ~network THEN "APIError"
                     ELSE start_result(call, running)
       IN  IF result # "ok"
           THEN /\ calls' = calls \o <<call @@ [result |-> result], Raise(result)>>
                /\ rpc' = "raised"
                /\ UNCHANGED running
           ELSE /\ calls' = Append(calls, call @@ [result |-> "ok"])
                /\ rpc' = "returned"
                /\ running' = Append(running,
                      [name |-> call.name, owner |-> r_plan.name,
                       host_ports |-> host_ports(call.ports)])
    /\ UNCHANGED <<r_plan, cmd, r_args, images, network, idx, listed, depth, caller>>
    /\ UNCHANGED nonRunVars

CliNext ==
    \/ LoadDistPlan \/ EndDistPlans \/ LoadUserPlan \/ EndUserPlans
    \/ CliGetPlan
    \/ CmdRun \/ CmdStop \/ NetAdd
    \/ EnsureNetCheck \/ EnsureNetBuild \/ EnsureNetCreate
    \/ EnsureImageCheck \/ EnsureImageBuild
    \/ MainStart \/ NetStart
    \/ AfterRun \/ Attach
    \/ StopList \/ StopLoop
    \/ OtherCreatesNetwork

CliSpec == CliInit /\ [][CliNext]_vars

\* the name given to the command matches invalid plans only
OnlyInvalidMatch ==
    /\ \E j \in 1..Len(plans) : plans[j].name = r_args.name
    /\ \A j \in 1..Len(plans) : plans[j].name = r_args.name => ~plans[j].valid

\* C29: a command given a name that matches invalid plans only ends as not
\* found without a runtime call; a command that makes a runtime call works
\* on a loaded plan of that name whose valid flag is true.
C29_InvalidPlanNoCalls ==
    /\ (pc = "done" /\ rpc # "load" /\ OnlyInvalidMatch) =>
          /\ rpc = "not_found"
          /\ calls = <<>>
    /\ calls # <<>> =>
          /\ r_plan.valid
          /\ r_plan.name = r_args.name
          /\ \E j \in 1..Len(plans) : plans[j] = r_plan

\* C29 happens: each of two plan files of the name is loaded as invalid, one
\* by a duplicate host port and one by its valid key, and the command ended
\* as not found.
C29_Witness ==
    /\ rpc = "not_found"
    /\ calls = <<>>
    /\ Len(plans) = 3
    /\ Cardinality({j \in 1..Len(plans) :
           plans[j].name = r_args.name /\ ~plans[j].valid}) = 2
    /\ OnlyInvalidMatch

====
